---- MODULE Spec2Model ----
(***************************************************************************)
(* MNHC claim portal (src/app.py): the /calculate and /generate_pdf        *)
(* handlers, the page-view handler, the analytics reset, and the analytics *)
(* store they log to through _log_event.                                   *)
(*                                                                         *)
(* A request is served by a handler that runs in its own thread: its       *)
(* locals live in req[p]; CAPS, RATES and the KV store are shared.         *)
(***************************************************************************)
EXTENDS Integers, Sequences, FiniteSets, TLC

VARIABLES
    CAPS,       \* module global CAPS
    RATES,      \* module global RATES
    kvUp,       \* redis_client is configured (truthy)
    kv,         \* value stored under ANALYTICS_KEY in the KV store
    month,      \* the current month (datetime.utcnow().strftime('%Y-%m'))
    req         \* per request: the handler's position and locals

vars == <<CAPS, RATES, kvUp, kv, month, req>>

(* ------------------------------------------------------------------ *)
(* Bounds                                                              *)
(* ------------------------------------------------------------------ *)

\* Requests that can be in flight or served in one run.
NProcs == 2
\* Keys a generated submission holds at most.
MaxPresent == 1
\* Generated counts reach from -MaxUnder up to cap + MaxOver.
MaxOver == 1
MaxUnder == 1
\* Months the clock can advance.
MaxMonth == 1
\* Events logged beyond the length the event lists are trimmed to.
Overflow == 2

Procs == 1..NProcs

(* ------------------------------------------------------------------ *)
(* Constant tables                                                     *)
(* ------------------------------------------------------------------ *)

\* RATES.items() iterates in insertion order.
KeyOrder == <<"opd", "anc", "pnc", "del", "tb", "epi", "nut", "ppfp", "short", "long">>

Categories == {KeyOrder[i] : i \in 1..Len(KeyOrder)}

InitCAPS ==
    [opd |-> 1100, anc |-> 200, pnc |-> 50, del |-> 30, tb |-> 30,
     epi |-> 200, nut |-> 250, ppfp |-> 20, short |-> 60, long |-> 30]

InitRATES ==
    [opd |-> 400, anc |-> 600, pnc |-> 200, del |-> 6500, tb |-> 200,
     epi |-> 100, nut |-> 200, ppfp |-> 300, short |-> 150, long |-> 400]

\* results, total = {}, 25000
FixedCost == 25000

\* analytics[...] = analytics[...][-1000:]
MaxEvents == 1000

(* ------------------------------------------------------------------ *)
(* Raw request values (JSON body values, form strings)                 *)
(* ------------------------------------------------------------------ *)

\* A value of a request body: t is its Python type after parsing the body,
\* n/d its number (d > 1: a float n/d), s its characters.
Raw(t, n, d, s) == [t |-> t, n |-> n, d |-> d, s |-> s]
IntV(n) == Raw("int", n, 1, <<>>)
FloatV(n, d) == Raw("float", n, d, <<>>)
BoolV(b) == Raw("bool", IF b THEN 1 ELSE 0, 1, <<>>)
StrV(s) == Raw("str", 0, 1, s)
NullV == Raw("null", 0, 1, <<>>)
ListV == Raw("list", 0, 1, <<>>)

DigitChars == <<"0", "1", "2", "3", "4", "5", "6", "7", "8", "9">>
IsDigit(c) == \E i \in 1..10 : DigitChars[i] = c
DigitVal(c) == (CHOOSE i \in 1..10 : DigitChars[i] = c) - 1
IsSpace(c) == c = " "

Min(a, b) == IF a < b THEN a ELSE b
Abs(n) == IF n < 0 THEN -n ELSE n

\* str(n) for an integer n
RECURSIVE NatToStr(_)
NatToStr(n) ==
    IF n < 10 THEN <<DigitChars[n + 1]>>
    ELSE Append(NatToStr(n \div 10), DigitChars[(n % 10) + 1])
IntToStr(n) == IF n < 0 THEN <<"-">> \o NatToStr(-n) ELSE NatToStr(n)

\* f"{n:,}": the digits in groups of three from the right, a comma between groups
RECURSIVE Grouped(_)
Grouped(ds) ==
    IF Len(ds) <= 3 THEN ds
    ELSE Grouped(SubSeq(ds, 1, Len(ds) - 3)) \o <<",">> \o SubSeq(ds, Len(ds) - 2, Len(ds))
Commas(n) == IF n < 0 THEN <<"-">> \o Grouped(NatToStr(-n)) ELSE Grouped(NatToStr(n))

\* s.strip(): leading and trailing whitespace removed
RECURSIVE LStrip(_)
LStrip(s) == IF s # <<>> /\ IsSpace(Head(s)) THEN LStrip(Tail(s)) ELSE s
RECURSIVE RStrip(_)
RStrip(s) ==
    IF s # <<>> /\ IsSpace(s[Len(s)]) THEN RStrip(SubSeq(s, 1, Len(s) - 1)) ELSE s
Strip(s) == RStrip(LStrip(s))

AllDigits(s) == s # <<>> /\ \A i \in 1..Len(s) : IsDigit(s[i])

RECURSIVE DigitsVal(_)
DigitsVal(s) ==
    IF s = <<>> THEN 0
    ELSE DigitsVal(SubSeq(s, 1, Len(s) - 1)) * 10 + DigitVal(s[Len(s)])

PyOk(v) == [ok |-> TRUE, v |-> v, err |-> "none"]
PyRaise(e) == [ok |-> FALSE, v |-> 0, err |-> e]

\* int(str): optional surrounding whitespace, an optional sign, decimal digits;
\* anything else raises ValueError.
PyIntStr(s) ==
    LET b == Strip(s)
        signed == b # <<>> /\ Head(b) \in {"+", "-"}
        digits == IF signed THEN Tail(b) ELSE b
    IN  IF AllDigits(digits)
        THEN PyOk(IF signed /\ Head(b) = "-" THEN -DigitsVal(digits) ELSE DigitsVal(digits))
        ELSE PyRaise("ValueError")

\* int(x) for a request value x: an int is itself, a bool 0 or 1, a float is
\* truncated towards zero, a string is parsed, None and containers raise TypeError.
PyInt(x) ==
    CASE x.t = "int" -> PyOk(x.n)
      [] x.t = "bool" -> PyOk(x.n)
      [] x.t = "float" -> PyOk(IF x.n < 0 THEN -(Abs(x.n) \div x.d) ELSE x.n \div x.d)
      [] x.t = "str" -> PyIntStr(x.s)
      [] OTHER -> PyRaise("TypeError")

\* data.get(key, default)
Get(data, key, default) == IF key \in DOMAIN data THEN data[key] ELSE default

(* ------------------------------------------------------------------ *)
(* Analytics store: _get_analytics_data, _save_analytics_data,         *)
(* _log_event                                                          *)
(* ------------------------------------------------------------------ *)

\* redis_client.get(ANALYTICS_KEY) of a key that was never set, or was deleted
NoData == [set |-> FALSE, json |-> <<>>]

\* the fallback structure of _get_analytics_data
EmptyAnalytics ==
    [page_views |-> <<>>, calculations |-> <<>>, pdf_generations |-> <<>>,
     district_stats |-> <<>>, monthly_claims |-> <<>>]

\* json.dumps(data): the stored text keeps the lists in order and the dicts by
\* key; every key of the structure is a string and every number an integer.
JsonDumps(data) == [set |-> TRUE, json |-> data]
\* json.loads(text)
JsonLoads(text) == text.json

\* _get_analytics_data(): the stored analytics, or the fallback structure when no
\* client is configured, the read raises, or nothing is stored.
GetAnalytics(readFails) ==
    IF kvUp /\ ~readFails /\ kv.set THEN JsonLoads(kv) ELSE EmptyAnalytics

\* lst[:1000]: the oldest events kept
FirstEvents(lst) ==
    IF Len(lst) > MaxEvents THEN SubSeq(lst, 1, MaxEvents) ELSE lst

\* lst[-1000:]
LastEvents(lst) ==
    IF Len(lst) > MaxEvents THEN SubSeq(lst, Len(lst) - MaxEvents + 1, Len(lst)) ELSE lst

\* hashlib.sha256(x.encode()).hexdigest()[:16]: a value fixed by x
Sha16(x) == <<"sha256", x>>

\* request.user_agent.string[:50]
UserAgentLen == 50
\* s[:n]
Prefix(s, n) == SubSeq(s, 1, Min(Len(s), n))

NoEvent == [type |-> "none"]

\* event_data.get('total', 0)
EventTotal(ev) == IF ev.type = "page_view" THEN 0 ELSE ev.total

NewDistrictStats == [views |-> 0, calculations |-> 0, pdfs |-> 0, total_amount |-> 0]
NewMonthStats == [count |-> 0, total_amount |-> 0, districts |-> <<>>]

\* a dict d with d[k] = v set
DictSet(d, k, v) == [x \in DOMAIN d \cup {k} |-> IF x = k THEN v ELSE d[x]]
\* d[k] when present, else a default
DictGet(d, k, default) == IF k \in DOMAIN d THEN d[k] ELSE default

\* the event lists: append and keep the last 1000
AppendEvent(a, ev) ==
    CASE ev.type = "page_view" ->
            [a EXCEPT !.page_views = LastEvents(Append(@, ev))]
      [] ev.type = "calculation" ->
            [a EXCEPT !.calculations = LastEvents(Append(@, ev))]
      [] ev.type = "pdf_generation" ->
            [a EXCEPT !.pdf_generations = LastEvents(Append(@, ev))]
      [] OTHER -> a

\* UpdateDistrictStats counting a calculation without adding its total
UpdateDistrictStatsCountOnly(a, ev) ==
    LET old == DictGet(a.district_stats, ev.district, NewDistrictStats)
        new == CASE ev.type = "page_view" -> [old EXCEPT !.views = @ + 1]
                 [] ev.type = "calculation" -> [old EXCEPT !.calculations = @ + 1]
                 [] ev.type = "pdf_generation" -> [old EXCEPT !.pdfs = @ + 1]
                 [] OTHER -> old
    IN  [a EXCEPT !.district_stats = DictSet(@, ev.district, new)]

\* the district_stats update
UpdateDistrictStats(a, ev) ==
    LET old == DictGet(a.district_stats, ev.district, NewDistrictStats)
        new == CASE ev.type = "page_view" -> [old EXCEPT !.views = @ + 1]
                 [] ev.type = "calculation" ->
                        [old EXCEPT !.calculations = @ + 1,
                                    !.total_amount = @ + EventTotal(ev)]
                 [] ev.type = "pdf_generation" -> [old EXCEPT !.pdfs = @ + 1]
                 [] OTHER -> old
    IN  [a EXCEPT !.district_stats = DictSet(@, ev.district, new)]

\* the monthly_claims update
UpdateMonthlyClaims(a, ev) ==
    LET old == DictGet(a.monthly_claims, ev.month, NewMonthStats)
        new == IF ev.type \in {"calculation", "pdf_generation"}
               THEN [count |-> old.count + 1,
                     total_amount |-> old.total_amount + EventTotal(ev),
                     districts |-> DictSet(old.districts, ev.district,
                                           DictGet(old.districts, ev.district, 0) + 1)]
               ELSE old
    IN  [a EXCEPT !.monthly_claims = DictSet(@, ev.month, new)]

\* full_event: the event data stamped with the time of logging (the month stands
\* for timestamp, date, time, month and year)
FullEvent(ev) == [k \in DOMAIN ev \cup {"month"} |-> IF k = "month" THEN month ELSE ev[k]]

\* _log_event between its read and its write: the analytics with the event added
LogUpdate(a, ev) ==
    LET full == FullEvent(ev)
    IN  UpdateMonthlyClaims(UpdateDistrictStats(AppendEvent(a, full), full), full)

(* ------------------------------------------------------------------ *)
(* Requests                                                            *)
(* ------------------------------------------------------------------ *)

NoResp == [status |-> 0, results |-> <<>>, total |-> 0, error |-> "none"]
\* jsonify(results) / send_file(pdf_buffer)
OkResp(results, total) == [status |-> 200, results |-> results, total |-> total, error |-> "none"]
\* jsonify({'error': str(e)}), 500
ErrResp(e) == [status |-> 500, results |-> <<>>, total |-> 0, error |-> e]

Idle ==
    [kind |-> "none", pc |-> "idle", data |-> <<>>, i |-> 0, results |-> <<>>,
     total |-> 0, event |-> NoEvent, analytics |-> EmptyAnalytics, printed |-> {},
     saved |-> FALSE, resp |-> NoResp]

\* the district a request names: a string, 'unknown' (or 'default') when absent
DistrictOf(data, default) == Get(data, "district", StrV(default)).s

\* Received with the running total started at 0
ReceivedNoFixedCost(kind, data) ==
    [Idle EXCEPT !.kind = kind, !.pc = "loop", !.data = data, !.i = 1, !.total = 0]

\* calculate(): data = request.json; results, total = {}, 25000
Received(kind, data) ==
    [Idle EXCEPT !.kind = kind, !.pc = "loop", !.data = data, !.i = 1, !.total = FixedCost]

\* CalcIter billing the entered count, not min(val, cap)
CalcIterUncapped(r, key) ==
    LET c == PyInt(Get(r.data, key, IntV(0))) IN
    IF ~c.ok THEN [r EXCEPT !.pc = "done", !.resp = ErrResp(c.err)]
    ELSE LET val == c.v
             amount == val * RATES[key]
         IN  [r EXCEPT !.total = @ + amount,
                       !.results = DictSet(@, key,
                           [amount |-> amount, capped |-> val > CAPS[key],
                            entered |-> val, cap |-> CAPS[key]]),
                       !.i = @ + 1]

\* CalcIter flagging val >= cap
CalcIterFlagAtCap(r, key) ==
    LET c == PyInt(Get(r.data, key, IntV(0))) IN
    IF ~c.ok THEN [r EXCEPT !.pc = "done", !.resp = ErrResp(c.err)]
    ELSE LET val == c.v
             actual == Min(val, CAPS[key])
             amount == actual * RATES[key]
         IN  [r EXCEPT !.total = @ + amount,
                       !.results = DictSet(@, key,
                           [amount |-> amount, capped |-> val >= CAPS[key],
                            entered |-> val, cap |-> CAPS[key]]),
                       !.i = @ + 1]

\* one pass of calculate()'s loop body for key
CalcIter(r, key) ==
    LET c == PyInt(Get(r.data, key, IntV(0))) IN
    IF ~c.ok THEN [r EXCEPT !.pc = "done", !.resp = ErrResp(c.err)]
    ELSE LET val == c.v
             actual == Min(val, CAPS[key])
             amount == actual * RATES[key]
         IN  [r EXCEPT !.total = @ + amount,
                       !.results = DictSet(@, key,
                           [amount |-> amount, capped |-> val > CAPS[key],
                            entered |-> val, cap |-> CAPS[key]]),
                       !.i = @ + 1]

\* [k for k in RATES.keys() if int(data.get(k, 0)) > 0]
ServicesUsed(data) ==
    SelectSeq(KeyOrder, LAMBDA k : PyInt(Get(data, k, IntV(0))).v > 0)

\* _log_event(event_type, event_data) as calculate() calls it
CalcEvent(r) ==
    [type |-> "calculation", district |-> DistrictOf(r.data, <<"unknown">>),
     total |-> r.total, services_used |-> ServicesUsed(r.data)]

\* PdfIter billing the entered count, not min(val, cap)
PdfIterUncapped(r, key) ==
    LET c == PyInt(Get(r.data, key, IntV(0))) IN
    IF ~c.ok THEN [r EXCEPT !.pc = "done", !.resp = ErrResp(c.err)]
    ELSE LET val == c.v
             value == val * RATES[key]
         IN  [r EXCEPT !.total = @ + value,
                       !.results = DictSet(@, key,
                           [patients |-> Get(r.data, key, StrV(<<"0">>)), amount |-> value,
                            text |-> Commas(value)]),
                       !.i = @ + 1]

\* one pass of generate_pdf()'s loop body for key, with the key's row of the table:
\* the count as submitted and the value as printed
PdfIter(r, key) ==
    LET c == PyInt(Get(r.data, key, IntV(0))) IN
    IF ~c.ok THEN [r EXCEPT !.pc = "done", !.resp = ErrResp(c.err)]
    ELSE LET val == c.v
             actual == Min(val, CAPS[key])
             value == actual * RATES[key]
         IN  [r EXCEPT !.total = @ + value,
                       !.results = DictSet(@, key,
                           [patients |-> Get(r.data, key, StrV(<<"0">>)), amount |-> value,
                            text |-> Commas(value)]),
                       !.i = @ + 1]

\* the last row of the table, built when the loop has ended: the total as printed
PdfTable(r) ==
    IF r.pc = "loop" /\ r.i > Len(KeyOrder)
    THEN [r EXCEPT !.results = DictSet(@, "total",
                       [patients |-> StrV(<<>>), amount |-> r.total, text |-> Commas(r.total)])]
    ELSE r

\* _log_event(event_type, event_data) as generate_pdf() calls it
PdfEvent(r) ==
    [type |-> "pdf_generation", district |-> DistrictOf(r.data, <<"unknown">>),
     total |-> r.total,
     manager_name_hash |-> Sha16(Get(r.data, "manager_name", StrV(<<>>)).s)]

\* _log_event(event_type, event_data) as index() calls it
PageViewEvent(r) ==
    [type |-> "page_view", district |-> DistrictOf(r.data, <<"default">>),
     ip_hash |-> Sha16(Get(r.data, "remote_addr", StrV(<<>>)).s),
     user_agent |-> Prefix(Get(r.data, "user_agent", StrV(<<"unknown">>)).s, UserAgentLen)]

\* after the loop: the event is built and _log_event is entered
AfterLoop(r, ev) == IF r.pc = "loop" /\ r.i > Len(KeyOrder)
                    THEN [r EXCEPT !.pc = "log_get", !.event = ev]
                    ELSE r

\* CalcStep saving the partial results to the store in every iteration
CalcStepPersisting(p) ==
    /\ req[p].kind = "calculate"
    /\ req[p].pc = "loop"
    /\ LET r == CalcIter(req[p], KeyOrder[req[p].i])
       IN  /\ req' = [req EXCEPT ![p] = AfterLoop(r, CalcEvent(r))]
           /\ kv' = IF kvUp THEN JsonDumps(LogUpdate(GetAnalytics(FALSE), CalcEvent(r))) ELSE kv
    /\ UNCHANGED <<CAPS, RATES, kvUp, month>>

\* CalcStep reading the body from a module global that the latest request set
CalcStepGlobalData(p) ==
    /\ req[p].kind = "calculate"
    /\ req[p].pc = "loop"
    /\ LET latest == CHOOSE q \in Procs :
                         req[q].pc # "idle" /\ \A x \in Procs : x > q => req[x].pc = "idle"
           r == [CalcIter([req[p] EXCEPT !.data = req[latest].data], KeyOrder[req[p].i])
                     EXCEPT !.data = req[p].data]
       IN  req' = [req EXCEPT ![p] = AfterLoop(r, CalcEvent(r))]
    /\ UNCHANGED <<CAPS, RATES, kvUp, kv, month>>

\* calculate(): one iteration of the loop over RATES; an exception ends the
\* request with the error response
CalcStep(p) ==
    /\ req[p].kind = "calculate"
    /\ req[p].pc = "loop"
    /\ LET r == CalcIter(req[p], KeyOrder[req[p].i])
       IN  req' = [req EXCEPT ![p] = AfterLoop(r, CalcEvent(r))]
    /\ UNCHANGED <<CAPS, RATES, kvUp, kv, month>>

\* PdfStep clamping in place: the cap of the key is overwritten with min(val, cap)
PdfStepWritingCaps(p) ==
    /\ req[p].kind = "generate_pdf"
    /\ req[p].pc = "loop"
    /\ LET key == KeyOrder[req[p].i]
           c == PyInt(Get(req[p].data, key, IntV(0)))
           r == PdfTable(PdfIter(req[p], key))
       IN  /\ req' = [req EXCEPT ![p] = AfterLoop(r, PdfEvent(r))]
           /\ CAPS' = IF c.ok THEN [CAPS EXCEPT ![key] = Min(c.v, @)] ELSE CAPS
    /\ UNCHANGED <<RATES, kvUp, kv, month>>

\* generate_pdf(): one iteration of the loop over RATES
PdfStep(p) ==
    /\ req[p].kind = "generate_pdf"
    /\ req[p].pc = "loop"
    /\ LET r == PdfTable(PdfIter(req[p], KeyOrder[req[p].i]))
       IN  req' = [req EXCEPT ![p] = AfterLoop(r, PdfEvent(r))]
    /\ UNCHANGED <<CAPS, RATES, kvUp, kv, month>>

\* Respond with the items of the request body copied into the result
RespondEcho(r) ==
    OkResp([k \in DOMAIN r.results \cup DOMAIN r.data |->
               IF k \in DOMAIN r.results THEN r.results[k] ELSE r.data[k]], r.total)

\* the handler's return after _log_event: jsonify(results), send_file(pdf_buffer),
\* render_template(...)
Respond(r) == OkResp(r.results, r.total)

\* print(f"KV read error: {e}") / print(f"KV write error: {e}")
ReadError == "KV read error"
WriteError == "KV write error"

\* LogGet with a read that raises ending the request in the handler's except branch
LogGetRaising(p) ==
    /\ req[p].pc = "log_get"
    /\ \E readFails \in BOOLEAN :
          req' = [req EXCEPT ![p].analytics = LogUpdate(GetAnalytics(readFails), req[p].event),
                             ![p].printed = IF kvUp /\ readFails THEN @ \cup {ReadError} ELSE @,
                             ![p].resp = IF kvUp /\ readFails THEN ErrResp("KVError") ELSE @,
                             ![p].pc = IF kvUp /\ readFails THEN "done" ELSE "log_set"]
    /\ UNCHANGED <<CAPS, RATES, kvUp, kv, month>>

\* _log_event: analytics = _get_analytics_data(), then the event is added to it; a
\* read that raises is printed and the fallback structure is used
LogGet(p) ==
    /\ req[p].pc = "log_get"
    /\ \E readFails \in BOOLEAN :
          req' = [req EXCEPT ![p].analytics = LogUpdate(GetAnalytics(readFails), req[p].event),
                             ![p].printed = IF kvUp /\ readFails THEN @ \cup {ReadError} ELSE @,
                             ![p].pc = "log_set"]
    /\ UNCHANGED <<CAPS, RATES, kvUp, kv, month>>

\* LogSet with a failed save reported as the request's error
LogSetRaising(p) ==
    /\ req[p].pc = "log_set"
    /\ \E writeFails \in BOOLEAN :
          /\ kv' = IF kvUp /\ ~writeFails THEN JsonDumps(req[p].analytics) ELSE kv
          /\ req' = [req EXCEPT ![p].pc = "done",
                                ![p].saved = kvUp /\ ~writeFails,
                                ![p].printed = IF kvUp /\ writeFails THEN @ \cup {WriteError} ELSE @,
                                ![p].resp = IF kvUp /\ ~writeFails THEN Respond(req[p])
                                            ELSE ErrResp("KVError")]
    /\ UNCHANGED <<CAPS, RATES, kvUp, month>>

\* _log_event: _save_analytics_data(analytics), which returns whether it saved and
\* prints a write that raises; then the handler returns its response
LogSet(p) ==
    /\ req[p].pc = "log_set"
    /\ \E writeFails \in BOOLEAN :
          /\ kv' = IF kvUp /\ ~writeFails THEN JsonDumps(req[p].analytics) ELSE kv
          /\ req' = [req EXCEPT ![p].pc = "done",
                                ![p].saved = kvUp /\ ~writeFails,
                                ![p].printed = IF kvUp /\ writeFails THEN @ \cup {WriteError} ELSE @,
                                ![p].resp = Respond(req[p])]
    /\ UNCHANGED <<CAPS, RATES, kvUp, month>>

\* sum(d.get('total_amount', 0) for d in analytics['district_stats'].values())
RECURSIVE PlatformValue(_)
PlatformValue(stats) ==
    IF DOMAIN stats = {} THEN 0
    ELSE LET d == CHOOSE x \in DOMAIN stats : TRUE
         IN  stats[d].total_amount
                 + PlatformValue([x \in DOMAIN stats \ {d} |-> stats[x]])

\* _get_analytics_summary() over the analytics a (monthly_active_districts and
\* last_updated depend on the time of day, which the month clock does not hold)
AnalyticsSummary(a) ==
    [total_page_views |-> Len(a.page_views),
     total_calculations |-> Len(a.calculations),
     total_pdfs_generated |-> Len(a.pdf_generations),
     unique_districts_active |-> Cardinality(DOMAIN a.district_stats \ {<<"unknown">>}),
     total_platform_value |-> PlatformValue(a.district_stats),
     district_breakdown |-> a.district_stats,
     monthly_trends |-> a.monthly_claims,
     storage_type |-> IF kvUp THEN "Upstash KV" ELSE "Fallback (Memory)"]

\* analytics_json() and analytics_dashboard(): GET /analytics/json or /analytics
\* arrives and is answered with the summary of what the store holds
ViewAnalytics(p) ==
    /\ req[p].pc = "idle"
    /\ \A q \in Procs : q < p => req[q].pc # "idle"
    /\ \E readFails \in BOOLEAN :
          req' = [req EXCEPT ![p] =
                     [Idle EXCEPT !.kind = "analytics", !.pc = "done",
                                  !.printed = IF kvUp /\ readFails THEN {ReadError} ELSE {},
                                  !.resp = OkResp(AnalyticsSummary(GetAnalytics(readFails)),
                                                  0)]]
    /\ UNCHANGED <<CAPS, RATES, kvUp, kv, month>>

\* reset_analytics(): with the admin secret and a client, the key is deleted
ResetAnalytics ==
    /\ \E authorised \in BOOLEAN, deleteFails \in BOOLEAN :
          kv' = IF authorised /\ kvUp /\ ~deleteFails THEN NoData ELSE kv
    /\ UNCHANGED <<CAPS, RATES, kvUp, month, req>>

\* the month changes
Tick ==
    /\ month < MaxMonth
    /\ month' = month + 1
    /\ UNCHANGED <<CAPS, RATES, kvUp, kv, req>>

(* ------------------------------------------------------------------ *)
(* Request bodies                                                      *)
(* ------------------------------------------------------------------ *)

\* The examples of the specification's section 8.
ExOpd5000 == [opd |-> IntV(5000)]
ExAtCaps == [del |-> IntV(30), tb |-> IntV(30)]
ExAbc == [anc |-> StrV(<<"a", "b", "c">>)]
ExFoo == [foo |-> IntV(10)]
ExEmpty == <<>>
\* an unknown key beside a category
ExFooOpd == [opd |-> IntV(5000), foo |-> IntV(10)]

\* counts around a category's cap
Counts(k) == (-MaxUnder..0) \cup (InitCAPS[k]..(InitCAPS[k] + MaxOver))

\* what a JSON body can hold for a category
JsonValues(k) ==
    {IntV(n) : n \in Counts(k)}
        \cup {StrV(IntToStr(InitCAPS[k] + 1)), StrV(<<"a", "b", "c">>),
              NullV, FloatV(5, 2), BoolV(TRUE), ListV}

\* what a form field can hold for a category: always a string
FormValues(k) ==
    {StrV(IntToStr(n)) : n \in Counts(k)}
        \cup {StrV(<<" ">> \o IntToStr(InitCAPS[k]) \o <<" ">>), StrV(<<"a", "b", "c">>),
              StrV(<<>>)}

Districts == {<<"Lahore">>, <<"Multan">>}

OtherKeys == {"district", "foo"}

JsonValuesOf(k) ==
    CASE k = "district" -> {StrV(d) : d \in Districts}
      [] k = "foo" -> {IntV(10)}
      [] OTHER -> JsonValues(k)

FormValuesOf(k) ==
    CASE k = "district" -> {StrV(d) : d \in Districts}
      [] k = "foo" -> {StrV(<<"1", "0">>)}
      [] OTHER -> FormValues(k)

\* every JSON body with exactly these keys
JsonBodiesOver(keys) ==
    {f \in [keys -> UNION {JsonValuesOf(k) : k \in keys}] :
        \A k \in keys : f[k] \in JsonValuesOf(k)}

\* every form with exactly these fields
FormsOver(keys) ==
    {f \in [keys -> UNION {FormValuesOf(k) : k \in keys}] :
        \A k \in keys : f[k] \in FormValuesOf(k)}

SmallKeySets == {S \in SUBSET (Categories \cup OtherKeys) : Cardinality(S) <= MaxPresent}

\* every category set to the same offset from its cap
AllAt(off) == [k \in Categories |-> IntV(InitCAPS[k] + off)]
AllAtForm(off) == [k \in Categories |-> StrV(IntToStr(InitCAPS[k] + off))]

\* JSON bodies posted to /calculate
JsonSubmissions ==
    {ExEmpty, ExOpd5000, ExAtCaps, ExAbc, ExFoo, ExFooOpd}
        \cup {AllAt(off) : off \in (-1)..MaxOver}
        \cup UNION {JsonBodiesOver(S) : S \in SmallKeySets}

\* forms posted to /generate_pdf
FormSubmissions ==
    {ExEmpty} \cup {AllAtForm(off) : off \in (-1)..MaxOver}
        \cup UNION {FormsOver(S) : S \in SmallKeySets}

(* ------------------------------------------------------------------ *)
(* One request, any body                                               *)
(* ------------------------------------------------------------------ *)

TypeOK ==
    /\ kvUp \in BOOLEAN
    /\ month \in Nat
    /\ \A p \in Procs : req[p].pc \in {"idle", "loop", "log_get", "log_set", "done"}

InitShared ==
    /\ CAPS = InitCAPS
    /\ RATES = InitRATES
    /\ kvUp \in BOOLEAN
    /\ kv = NoData
    /\ month = 0

\* request 1 has been received, with any body of the bounded sets
InitCalc ==
    /\ InitShared
    /\ \E r \in {Received("calculate", d) : d \in JsonSubmissions}
                \cup {Received("generate_pdf", d) : d \in FormSubmissions} :
          req = [p \in Procs |-> IF p = 1 THEN r ELSE Idle]

NextCalc == \E p \in Procs : CalcStep(p) \/ PdfStep(p) \/ LogGet(p) \/ LogSet(p)

SpecCalc == InitCalc /\ [][NextCalc]_vars

(* ------------------------------------------------------------------ *)
(* The server: requests arrive and are served concurrently             *)
(* ------------------------------------------------------------------ *)

\* bodies the concurrent requests carry
CalcBodies ==
    {[opd |-> IntV(5000), district |-> StrV(<<"Lahore">>)],
     ExAtCaps,
     [anc |-> StrV(<<"a", "b", "c">>), district |-> StrV(<<"Lahore">>)],
     [tb |-> IntV(-1), foo |-> IntV(10)]}

PdfForms ==
    {[long |-> StrV(<<"3", "1">>), district |-> StrV(<<"Lahore">>),
      manager_name |-> StrV(<<"Ayesha">>)]}

PageViews ==
    {[district |-> StrV(<<"Lahore">>), remote_addr |-> StrV(<<"10.0.0.1">>),
      user_agent |-> StrV(<<"Mozilla">>)]}

\* the next free request slot: slots are taken in order of arrival
Free(p) == req[p].pc = "idle" /\ \A q \in Procs : q < p => req[q].pc # "idle"

\* POST /calculate arrives
ReceiveCalculate(p) ==
    /\ Free(p)
    /\ \E d \in CalcBodies : req' = [req EXCEPT ![p] = Received("calculate", d)]
    /\ UNCHANGED <<CAPS, RATES, kvUp, kv, month>>

\* POST /generate_pdf arrives
ReceivePdf(p) ==
    /\ Free(p)
    /\ \E d \in PdfForms : req' = [req EXCEPT ![p] = Received("generate_pdf", d)]
    /\ UNCHANGED <<CAPS, RATES, kvUp, kv, month>>

\* GET / arrives: index() builds its page-view event and enters _log_event
ReceiveIndex(p) ==
    /\ Free(p)
    /\ \E d \in PageViews :
          LET r == [Idle EXCEPT !.kind = "index", !.data = d]
          IN  req' = [req EXCEPT ![p] = [r EXCEPT !.pc = "log_get", !.event = PageViewEvent(r)]]
    /\ UNCHANGED <<CAPS, RATES, kvUp, kv, month>>

Init ==
    /\ InitShared
    /\ req = [p \in Procs |-> Idle]

\* no handler is running
Quiet == \A p \in Procs : req[p].pc \in {"idle", "done"}

\* The server taking one request at a time, every handler; the admin reset is not
\* held back by a running handler.
Next ==
    \/ \E p \in Procs : Quiet /\ ReceiveCalculate(p)
    \/ \E p \in Procs : Quiet /\ ReceivePdf(p)
    \/ \E p \in Procs : Quiet /\ ReceiveIndex(p)
    \/ \E p \in Procs : Quiet /\ ViewAnalytics(p)
    \/ \E p \in Procs : CalcStep(p) \/ PdfStep(p) \/ LogGet(p) \/ LogSet(p)
    \/ ResetAnalytics

Spec == Init /\ [][Next]_vars

\* /calculate requests served concurrently, one thread each, interleaved at every
\* loop iteration and every store access.
NextConc ==
    \/ \E p \in Procs : ReceiveCalculate(p) \/ CalcStep(p) \/ LogGet(p) \/ LogSet(p)
    \/ ResetAnalytics

SpecConc == Init /\ [][NextConc]_vars

\* /calculate requests served concurrently with nobody resetting the analytics
NextRace == \E p \in Procs : ReceiveCalculate(p) \/ CalcStep(p) \/ LogGet(p) \/ LogSet(p)

SpecRace == Init /\ [][NextRace]_vars

(* ------------------------------------------------------------------ *)
(* Two requests of one handler, served one after the other             *)
(* ------------------------------------------------------------------ *)

\* /calculate bodies with the same district, the same services used and the same
\* total: opd above and at its cap, and a zero count beside it
PairCalcBodies ==
    {[opd |-> IntV(5000), district |-> StrV(<<"Lahore">>)],
     [opd |-> IntV(1100), district |-> StrV(<<"Lahore">>)],
     [opd |-> IntV(1200), tb |-> IntV(0), district |-> StrV(<<"Lahore">>)]}

\* a /generate_pdf form with the claimant's fields filled in
FormAyesha ==
    [long |-> StrV(<<"3", "1">>), district |-> StrV(<<"Lahore">>),
     manager_name |-> StrV(<<"Ayesha">>), cnic |-> StrV(<<"35202-1">>),
     account_title |-> StrV(<<"Ayesha Clinic">>), iban |-> StrV(<<"PK36-1">>),
     signature |-> StrV(<<"data:image/png;base64", ",", "AAAA">>)]

\* the form with another manager name, with other bank and identity fields and
\* another signature, and with another count above the cap
PairForms ==
    {FormAyesha,
     [FormAyesha EXCEPT !.manager_name = StrV(<<"Bilal">>)],
     [FormAyesha EXCEPT !.cnic = StrV(<<"61101-2">>),
                        !.account_title = StrV(<<"City Clinic">>),
                        !.iban = StrV(<<"PK36-2">>),
                        !.signature = StrV(<<"data:image/png;base64", ",", "BBBB">>)],
     [FormAyesha EXCEPT !.long = StrV(<<"4", "5">>)]}

\* GET / from two client addresses
PairViews ==
    {[district |-> StrV(<<"Lahore">>), remote_addr |-> StrV(<<"10.0.0.1">>),
      user_agent |-> StrV(<<"Mozilla">>)],
     [district |-> StrV(<<"Lahore">>), remote_addr |-> StrV(<<"10.0.0.2">>),
      user_agent |-> StrV(<<"Mozilla">>)]}

\* a request as its handler starts on it: index() goes straight to _log_event
Arrived(kind, d) ==
    IF kind = "index"
    THEN LET r == [Idle EXCEPT !.kind = "index", !.data = d]
         IN  [r EXCEPT !.pc = "log_get", !.event = PageViewEvent(r)]
    ELSE Received(kind, d)

\* the two requests: same handler, any two submissions
RequestPairs ==
    UNION {{<<Arrived(w[1], d), Arrived(w[1], e)>> : d, e \in w[2]} :
              w \in {<<"calculate", PairCalcBodies>>, <<"generate_pdf", PairForms>>,
                      <<"index", PairViews>>}}

InitPair ==
    /\ InitShared
    /\ \E pair \in RequestPairs :
          req = [p \in Procs |-> IF p <= 2 THEN pair[p] ELSE Idle]

\* request p is served when the requests before it have returned; the month may
\* change at any point
Turn(p) == \A q \in Procs : q < p => req[q].pc = "done"

NextPair ==
    \/ \E p \in Procs : Turn(p) /\ (CalcStep(p) \/ PdfStep(p) \/ LogGet(p) \/ LogSet(p))
    \/ Tick

SpecPair == InitPair /\ [][NextPair]_vars

(* ------------------------------------------------------------------ *)
(* _log_event called again and again against a working store          *)
(* ------------------------------------------------------------------ *)

\* one or two requests of each handler
LogCallers ==
    {Arrived("calculate", d) : d \in PairCalcBodies}
        \cup {Arrived("generate_pdf", FormAyesha)}
        \cup {Arrived("index", d) : d \in PairViews}

\* as many calls as fill a list and overflow it
MaxLogged == MaxEvents + Overflow

\* a store is configured and holds nothing yet; request 1 has been received
InitLog ==
    /\ CAPS = InitCAPS
    /\ RATES = InitRATES
    /\ kvUp = TRUE
    /\ kv = NoData
    /\ month = 0
    /\ \E r \in LogCallers : req = [p \in Procs |-> IF p = 1 THEN r ELSE Idle]

\* _log_event(event_type, event_data) with the event of request p, from its read to
\* its save, the read and the write both succeeding; the call is made again and
\* again, the next one a month later
LogEventCall(p) ==
    /\ req[p].pc = "log_get"
    /\ kvUp
    /\ month < MaxLogged
    /\ kv' = JsonDumps(LogUpdate(GetAnalytics(FALSE), req[p].event))
    /\ month' = month + 1
    /\ UNCHANGED <<CAPS, RATES, kvUp, req>>

NextLog == \E p \in Procs : CalcStep(p) \/ PdfStep(p) \/ LogEventCall(p)

SpecLog == InitLog /\ [][NextLog]_vars

(* ------------------------------------------------------------------ *)
(* Properties                                                          *)
(* ------------------------------------------------------------------ *)

\* the cap/rate table of the specification, section 6
SpecCap ==
    [opd |-> 1100, anc |-> 200, pnc |-> 50, del |-> 30, tb |-> 30,
     epi |-> 200, nut |-> 250, ppfp |-> 20, short |-> 60, long |-> 30]
SpecRate ==
    [opd |-> 400, anc |-> 600, pnc |-> 200, del |-> 6500, tb |-> 200,
     epi |-> 100, nut |-> 200, ppfp |-> 300, short |-> 150, long |-> 400]

\* request p is a finished /calculate
CalcDone(p) == req[p].kind = "calculate" /\ req[p].pc = "done"
\* request p is a finished /calculate that returned line items
CalcOk(p) == CalcDone(p) /\ req[p].resp.status = 200
\* what request p submitted for category k
Submitted(p, k) == Get(req[p].data, k, IntV(0))
\* a non-negative integer count
IsCount(x) == x.t = "int" /\ x.n >= 0
\* the body holds exactly the items of d
SameBody(data, d) == DOMAIN data = DOMAIN d /\ \A k \in DOMAIN d : data[k] = d[k]

RECURSIVE SumOver(_, _)
SumOver(f, keys) ==
    IF keys = {} THEN 0
    ELSE LET k == CHOOSE x \in keys : TRUE IN f[k] + SumOver(f, keys \ {k})

\* C1: for every category and every non-negative integer count n submitted for it,
\* /calculate reports amount = min(n, cap) * rate with the specification's table;
\* a submission of such counts only always gets its line items.
C1_CappedAmount ==
    \A p \in Procs : CalcDone(p) =>
        /\ (\A k \in Categories : IsCount(Submitted(p, k))) => req[p].resp.status = 200
        /\ req[p].resp.status = 200 =>
              \A k \in Categories :
                  IsCount(Submitted(p, k)) =>
                      req[p].resp.results[k].amount
                          = Min(Submitted(p, k).n, SpecCap[k]) * SpecRate[k]

\* a count above the cap was billed at the cap
C1_Witness ==
    \E p \in Procs :
        /\ CalcOk(p)
        /\ Submitted(p, "nut") = IntV(251)
        /\ req[p].resp.results["nut"].amount = 50000

\* C2: the total is 25000 plus the sum of the ten amounts; the empty submission
\* totals 25000 with every amount 0; opd = 5000 alone gives amount 440000, capped,
\* total 465000.
C2_Total ==
    \A p \in Procs : CalcDone(p) =>
        /\ req[p].resp.status = 200 =>
              req[p].resp.total
                  = 25000 + SumOver([k \in Categories |-> req[p].resp.results[k].amount],
                                    Categories)
        /\ SameBody(req[p].data, ExEmpty) =>
              /\ req[p].resp.status = 200
              /\ req[p].resp.total = 25000
              /\ \A k \in Categories : req[p].resp.results[k].amount = 0
        /\ SameBody(req[p].data, ExOpd5000) =>
              /\ req[p].resp.status = 200
              /\ req[p].resp.results["opd"].amount = 440000
              /\ req[p].resp.results["opd"].capped
              /\ req[p].resp.total = 465000

C2_Witness ==
    \E p \in Procs :
        CalcOk(p) /\ SameBody(req[p].data, ExOpd5000) /\ req[p].resp.total = 465000

\* C3: the capped flag is true exactly when the count exceeds the cap, a count at
\* the cap is not flagged (del = 30, tb = 30: amounts 195000 and 6000, total 226000),
\* and the amount is min(count, cap) * rate whatever the flag.
C3_CappedFlag ==
    \A p \in Procs : CalcDone(p) =>
        /\ req[p].resp.status = 200 =>
              \A k \in Categories :
                  LET item == req[p].resp.results[k] IN
                  /\ item.capped = (item.entered > SpecCap[k])
                  /\ item.amount = Min(item.entered, SpecCap[k]) * SpecRate[k]
                  /\ Submitted(p, k).t = "int" => item.entered = Submitted(p, k).n
        /\ SameBody(req[p].data, ExAtCaps) =>
              /\ req[p].resp.status = 200
              /\ ~req[p].resp.results["del"].capped
              /\ ~req[p].resp.results["tb"].capped
              /\ req[p].resp.results["del"].amount = 195000
              /\ req[p].resp.results["tb"].amount = 6000
              /\ req[p].resp.total = 226000

C3_Witness ==
    \E p \in Procs :
        /\ CalcOk(p) /\ SameBody(req[p].data, ExAtCaps)
        /\ ~req[p].resp.results["del"].capped
        /\ req[p].resp.total = 226000

\* a value that is no number: null, a container, or a string int() rejects
Malformed(x) == ~PyInt(x).ok

\* C4: a missing, null or non-numeric value of a category counts as 0 with amount
\* 0, and the request returns its line items, never an error outcome.
C4_MalformedIsZero ==
    \A p \in Procs : CalcDone(p) =>
        /\ req[p].resp.status = 200
        /\ \A k \in Categories :
              (k \notin DOMAIN req[p].data \/ Malformed(req[p].data[k])) =>
                  /\ req[p].resp.results[k].entered = 0
                  /\ req[p].resp.results[k].amount = 0

\* C5: every reported amount is a non-negative integer multiple of the rate, for
\* negative inputs too.
C5_AmountNonNegative ==
    \A p \in Procs : CalcOk(p) =>
        \A k \in Categories :
            /\ req[p].resp.results[k].amount >= 0
            /\ req[p].resp.results[k].amount % SpecRate[k] = 0

\* C6: the total of every /calculate result and of every generated PDF is at
\* least 25000.
C6_TotalAtLeastFixedCost ==
    \A p \in Procs :
        (req[p].kind \in {"calculate", "generate_pdf"} /\ req[p].pc = "done"
            /\ req[p].resp.status = 200) => req[p].resp.total >= 25000

\* int(data.get(k, 0)) of a body
CountOf(data, k) == PyInt(Get(data, k, IntV(0)))

\* C7: keys of the body that are no category do not change the outcome or the
\* total, and the line items of the result are exactly the ten categories.
C7_UnknownKeysIgnored ==
    \A p \in Procs : CalcDone(p) =>
        /\ (req[p].resp.status = 200) = (\A k \in Categories : CountOf(req[p].data, k).ok)
        /\ req[p].resp.status = 200 =>
              /\ DOMAIN req[p].resp.results = Categories
              /\ req[p].resp.total
                    = 25000 + SumOver([k \in Categories |->
                                          Min(CountOf(req[p].data, k).v, SpecCap[k]) * SpecRate[k]],
                                      Categories)

\* foo = 10 beside opd = 5000: the total is that of opd = 5000 alone
C7_Witness ==
    \E p \in Procs :
        /\ CalcOk(p)
        /\ SameBody(req[p].data, ExFooOpd)
        /\ "foo" \notin DOMAIN req[p].resp.results
        /\ req[p].resp.total = 465000

\* C8: two /calculate requests with the same body get the same response, whatever
\* was served in between and whatever the store held.
C8_Deterministic ==
    \A p, q \in Procs :
        (CalcDone(p) /\ CalcDone(q) /\ SameBody(req[p].data, req[q].data))
            => req[p].resp = req[q].resp

\* the same body served twice, the second time over a store the first had written
C8_Witness ==
    /\ CalcOk(1) /\ CalcOk(2)
    /\ SameBody(req[1].data, req[2].data)
    /\ Len(req[1].analytics.calculations) = 1
    /\ Len(req[2].analytics.calculations) = 2

\* a step of a /calculate request p
CalcMoves(p) == req[p].kind = "calculate" /\ req'[p] # req[p]

\* C9 as stated: no step of a /calculate request changes the analytics store.
C9_NoSideEffects == [][\A p \in Procs : CalcMoves(p) => kv' = kv]_vars

\* C9 as amended: the loop of /calculate writes nothing; the one write of a
\* /calculate request is the save in _log_event, after the calculation succeeded and
\* with a store configured, and it stores analytics whose last calculation event
\* carries the request's total.
C9_OnlyLogEventWrites ==
    [][\A p \in Procs : CalcMoves(p) =>
          \/ kv' = kv
          \/ /\ req[p].pc = "log_set"
             /\ kvUp
             /\ req'[p].resp.status = 200
             /\ kv'.set
             /\ LET evs == JsonLoads(kv').calculations
                IN  /\ Len(evs) >= 1
                    /\ evs[Len(evs)].type = "calculation"
                    /\ evs[Len(evs)].total = req'[p].resp.total]_vars

\* a /calculate request has returned and the store holds its event
C9_Witness ==
    \E p \in Procs :
        /\ CalcOk(p)
        /\ kv.set
        /\ Len(JsonLoads(kv).calculations) >= 1
        /\ JsonLoads(kv).calculations[Len(JsonLoads(kv).calculations)].total = req[p].resp.total

\* calculate() run to its end with no other request: the loop, then the response
RECURSIVE RunAlone(_)
RunAlone(r) ==
    IF r.pc = "loop" /\ r.i <= Len(KeyOrder) THEN RunAlone(CalcIter(r, KeyOrder[r.i])) ELSE r
AloneResp(data) ==
    LET r == RunAlone(Received("calculate", data))
    IN  IF r.pc = "done" THEN r.resp ELSE Respond(r)

\* C10: under any interleaving of concurrent /calculate requests, each returns the
\* response it returns when run alone.
C10_Isolation ==
    \A p \in Procs : CalcDone(p) => req[p].resp = AloneResp(req[p].data)

\* request 2 arrived after request 1, with another body, and returned while
\* request 1 was still in its loop
C10_Witness ==
    /\ CalcOk(2)
    /\ req[1].kind = "calculate" /\ req[1].pc = "loop" /\ req[1].i = 5
    /\ ~SameBody(req[1].data, req[2].data)

\* the request went through _log_event and the store let it down: the read raised,
\* the write raised, or nothing was saved (no store configured)
StoreFailed(p) ==
    /\ req[p].pc = "done" /\ req[p].event.type # "none"
    /\ (req[p].printed # {} \/ ~req[p].saved)

\* the request went through _log_event with a store that read and saved
StoreWorked(p) ==
    req[p].pc = "done" /\ req[p].event.type # "none" /\ req[p].printed = {} /\ req[p].saved

\* C11: a /calculate request whose store read or write failed, or that had no store
\* configured, returns status 200 with the line items and the total of the
\* calculation, the same response as a request with the same body whose store worked.
C11_StoreFailureHarmless ==
    \A p \in Procs : CalcDone(p) =>
        /\ (\A k \in Categories : CountOf(req[p].data, k).ok) =>
              /\ req[p].event.type = "calculation"
              /\ req[p].resp.status = 200
              /\ \A k \in Categories :
                    LET n == CountOf(req[p].data, k).v
                    IN  req[p].resp.results[k]
                            = [entered |-> n, cap |-> SpecCap[k], capped |-> n > SpecCap[k],
                               amount |-> Min(n, SpecCap[k]) * SpecRate[k]]
              /\ req[p].resp.total = 25000 + SumOver([k \in Categories |->
                                          req[p].resp.results[k].amount], Categories)
        /\ StoreFailed(p) =>
              \A q \in Procs :
                  (CalcDone(q) /\ StoreWorked(q) /\ SameBody(req[p].data, req[q].data))
                      => req[p].resp = req[q].resp

\* the same body served twice: once with a store that saved, once with a store
\* whose read and write both raised
C11_Witness ==
    /\ CalcOk(1) /\ CalcOk(2)
    /\ SameBody(req[1].data, req[2].data)
    /\ StoreWorked(1)
    /\ req[2].printed = {ReadError, WriteError}
    /\ req[2].resp.total = req[1].resp.total

\* the claimant's personally identifying fields and the client address
PiiFields == {"manager_name", "cnic", "account_title", "iban", "signature", "remote_addr"}

\* the fields of them that reach an event, as a truncated SHA-256 digest
HashedFields == {"manager_name", "remote_addr"}

\* bodies d and e agree on every field outside fields
SameApartFrom(d, e, fields) ==
    /\ DOMAIN d \ fields = DOMAIN e \ fields
    /\ \A k \in DOMAIN d \ fields : d[k] = e[k]

\* bodies d and e differ at most in how large their positive counts are
SameApartFromMagnitudes(d, e) ==
    /\ SameApartFrom(d, e, Categories)
    /\ \A k \in Categories :
          /\ CountOf(d, k).ok /\ CountOf(e, k).ok
          /\ \/ CountOf(d, k).v > 0 /\ CountOf(e, k).v > 0
             \/ CountOf(d, k).v = CountOf(e, k).v

\* request p has returned after handing its event to _log_event
Logged(p) == req[p].pc = "done" /\ req[p].event.type # "none"

\* requests p and q of one handler, both logged
LoggedPair(p, q) == Logged(p) /\ Logged(q) /\ req[p].kind = req[q].kind

\* the event without its digest fields
WithoutHashes(ev) ==
    [k \in DOMAIN ev \ {"manager_name_hash", "ip_hash"} |-> ev[k]]

\* C12 as stated: the event of a request depends on no personally identifying
\* field and on no magnitude of a positive count: two requests of one handler that
\* differ only in those fields, or only in the magnitudes with the same total, hand
\* the same event to _log_event (the timestamp is added inside _log_event).
C12_NoPiiInEvents ==
    \A p, q \in Procs : LoggedPair(p, q) =>
        /\ SameApartFrom(req[p].data, req[q].data, PiiFields) => req[p].event = req[q].event
        /\ (SameApartFromMagnitudes(req[p].data, req[q].data) /\ req[p].total = req[q].total)
              => req[p].event = req[q].event

\* What holds of events instead: an event holds the district, the total, the names
\* of the services used, the user-agent prefix and the digests of the manager name
\* and of the client address, and nothing else: requests that differ only in the
\* magnitudes of positive counts with the same total, or only in CNIC, account
\* title, IBAN and signature, hand over the same event; requests that differ only in
\* manager name or client address hand over events that differ in the digest alone,
\* and do differ.
OnlyHashesOfPii ==
    \A p, q \in Procs : LoggedPair(p, q) =>
        /\ DOMAIN req[p].event
              = CASE req[p].kind = "calculate" -> {"type", "district", "total", "services_used"}
                  [] req[p].kind = "generate_pdf" -> {"type", "district", "total", "manager_name_hash"}
                  [] req[p].kind = "index" -> {"type", "district", "ip_hash", "user_agent"}
        /\ req[p].kind = "calculate" =>
              /\ req[p].event.total = req[p].total
              /\ \A i \in DOMAIN req[p].event.services_used :
                    req[p].event.services_used[i] \in Categories
        /\ (SameApartFromMagnitudes(req[p].data, req[q].data) /\ req[p].total = req[q].total)
              => req[p].event = req[q].event
        /\ SameApartFrom(req[p].data, req[q].data, PiiFields \ HashedFields)
              => req[p].event = req[q].event
        /\ SameApartFrom(req[p].data, req[q].data, PiiFields) =>
              /\ WithoutHashes(req[p].event) = WithoutHashes(req[q].event)
              /\ (req[p].event = req[q].event)
                    = (\A k \in HashedFields \cap DOMAIN req[p].data :
                          req[p].data[k] = req[q].data[k])

\* two /calculate requests for opd = 5000 and opd = 1100 handed over one and the same
\* event, and so did two /generate_pdf requests with different CNIC, account title,
\* IBAN and signature
SameEventReached ==
    /\ LoggedPair(1, 2)
    /\ req[1].event = req[2].event
    /\ \/ /\ req[1].kind = "calculate"
          /\ CountOf(req[1].data, "opd").v = 5000 /\ CountOf(req[2].data, "opd").v = 1100
       \/ /\ req[1].kind = "generate_pdf"
          /\ req[1].data.cnic # req[2].data.cnic
          /\ req[1].data.iban # req[2].data.iban

\* C13: CAPS and RATES hold the specification's table at start-up and in every
\* state reached by any sequence of index, calculate, generate_pdf, analytics and
\* reset requests.
C13_TablesConstant == CAPS = SpecCap /\ RATES = SpecRate

\* a /generate_pdf request and then an analytics view have been served, over a store
\* that was written and then reset
C13_Witness ==
    /\ req[1].kind = "generate_pdf" /\ req[1].pc = "done" /\ req[1].saved
    /\ req[2].kind = "analytics" /\ req[2].pc = "done"
    /\ kvUp /\ ~kv.set
    /\ CAPS["long"] = 30 /\ RATES["long"] = 400

\* the event data ev as logged in month m
Stamped(ev, m) == [k \in DOMAIN ev \cup {"month"} |-> IF k = "month" THEN m ELSE ev[k]]

\* the list of the stored analytics a that events of type t go to
EventList(a, t) ==
    CASE t = "page_view" -> a.page_views
      [] t = "calculation" -> a.calculations
      [] t = "pdf_generation" -> a.pdf_generations

\* C14: after any number of _log_event calls against a working store (the n-th call
\* logs in month n - 1, so month counts the calls and stamps tell the events apart)
\* every event list has at most 1000 entries, and the list of the logged type holds
\* the last min(n, 1000) events logged, oldest first.
C14_LastThousand ==
    LET a == IF kv.set THEN JsonLoads(kv) ELSE EmptyAnalytics
        ev == req[1].event
        lst == EventList(a, ev.type)
    IN  /\ \A t \in {"page_view", "calculation", "pdf_generation"} :
              Len(EventList(a, t)) <= 1000
        /\ req[1].pc = "log_get" =>
              /\ Len(lst) = Min(month, 1000)
              /\ \A i \in 1..Len(lst) : lst[i] = Stamped(ev, month - Len(lst) + i - 1)

\* more calculation events were logged than the list keeps: the list is full and
\* starts with the event logged in the call after the dropped ones
C14_Witness ==
    /\ month = MaxLogged
    /\ kv.set
    /\ Len(JsonLoads(kv).calculations) = 1000
    /\ JsonLoads(kv).calculations[1].month = Overflow
    /\ JsonLoads(kv).calculations[1000].month = MaxLogged - 1

\* the stored district_stats[d], all zero when the store has none
StoredStats(d) ==
    DictGet((IF kv.set THEN JsonLoads(kv) ELSE EmptyAnalytics).district_stats, d,
            NewDistrictStats)

\* the district request p logs under
LoggedDistrict(p) == DistrictOf(req[p].data, <<"unknown">>)

\* the /calculate requests for district d that have completed with their line items
Completed(d) == {p \in Procs : CalcOk(p) /\ LoggedDistrict(p) = d}

\* a store is configured, no request is under way, and every read and write of the
\* completed requests succeeded
AllSettled ==
    /\ kvUp
    /\ \A p \in Procs : req[p].pc \in {"idle", "done"} /\ (CalcOk(p) => StoreWorked(p))

WithinRequests(d) ==
    /\ \E q \in Procs : CalcOk(q) /\ kv = JsonDumps(req[q].analytics)
    /\ StoredStats(d).calculations <= Cardinality(Completed(d))
    /\ StoredStats(d).total_amount
          <= SumOver([q \in Procs |-> req[q].resp.total], Completed(d))

PdfOk(p) == req[p].kind = "generate_pdf" /\ req[p].pc = "done" /\ req[p].resp.status = 200

\* the /calculate body with the counts of the form: the integer each category's
\* text stands for, the other fields as they are
SameCounts(form) ==
    [k \in DOMAIN form |-> IF k \in Categories THEN IntV(PyInt(form[k]).v) ELSE form[k]]

\* C16: for the integer counts of any form, the total generate_pdf computes, prints
\* and logs is the total calculate returns for the same counts, and each category's
\* value in the PDF is the amount calculate returns for it.
C16_PathsAgree ==
    \A p \in Procs : PdfOk(p) =>
        LET calc == AloneResp(SameCounts(req[p].data)) IN
        /\ calc.status = 200
        /\ req[p].resp.total = calc.total
        /\ req[p].event.total = calc.total
        /\ req[p].resp.results["total"].text = Commas(calc.total)
        /\ \A k \in Categories :
              /\ req[p].resp.results[k].amount = calc.results[k].amount
              /\ req[p].resp.results[k].text = Commas(calc.results[k].amount)

\* a PDF for a count above its cap: opd = 1101 is printed as 440,000 and the total
\* as 465,000, the figures /calculate returns
C16_Witness ==
    \E p \in Procs :
        /\ PdfOk(p)
        /\ PyInt(Get(req[p].data, "opd", IntV(0))).v = 1101
        /\ req[p].resp.results["opd"].text = <<"4", "4", "0", ",", "0", "0", "0">>
        /\ req[p].resp.results["total"].text = <<"4", "6", "5", ",", "0", "0", "0">>
        /\ AloneResp(SameCounts(req[p].data)).total = 465000

====
